---- MODULE Spec2Model ----
(***************************************************************************)
(* gh_star_search: StarDatabase (a DuckDB table of starred repositories    *)
(* plus two NumPy files holding the embedding matrix and the parallel id   *)
(* array, cached on the instance) and HybridSearcher (semantic, keyword    *)
(* and Reciprocal Rank Fusion search over that store).                     *)
(*                                                                         *)
(* Encoding.  A Python Optional is a sequence of length 0 (None) or 1      *)
(* (<<v>>).  A string is a sequence of one-character strings.  A vector    *)
(* is a tuple of integers in units of 1/10; a similarity is a float record *)
(* whose v is in units of 1/100.  A fusion score is an exact integer       *)
(* multiple of 1/(10 * ScoreDen); the rounding of IEEE doubles is not      *)
(* modelled.  Columns that no query of the program compares (html_url,     *)
(* homepage, language, topics, name, owner, dates) are left out of rows.   *)
(***************************************************************************)
EXTENDS Integers, Sequences, FiniteSets, TLC

VARIABLES
  rows,             \* table starred_repos: a function id -> row
  embeddings_file,  \* file <db>.npy: <<>> when absent, <<matrix>> otherwise
  ids_file,         \* file <db>.ids.npy: <<>> when absent, <<array>> otherwise
  _embeddings,      \* StarDatabase._embeddings: <<>> is None
  _ids,             \* StarDatabase._ids: <<>> is None
  result,           \* what the call in progress hands to its caller, <<>> when none
  wpc,              \* position of the thread running save_repos
  wargs,            \* arguments of the save_repos call in progress
  rpc,              \* position of the thread running load_embeddings
  rlocal,           \* what the reader has evaluated so far of its return tuple
  generations       \* every (embeddings, ids) pair a save_repos call was given

vars ==
  <<rows, embeddings_file, ids_file, _embeddings, _ids, result,
    wpc, wargs, rpc, rlocal, generations>>

storeVars == <<rows, embeddings_file, ids_file, _embeddings, _ids>>
threadVars == <<wpc, wargs, rpc, rlocal, generations>>

---------------------------------------------------------------------------
(* Bounds and input sets.                                                  *)

MaxRepos == 2
MaxSync == 3
MaxLimit == 2
DefaultLimit == 10
DefaultWeight == 7
RRF_K == 60

None == <<>>
Some(v) == <<v>>

\* The repositories a caller may pass.  RepoA2 carries the id of RepoA (a
\* re-synced record) and the full_name of RepoC (two ids, one full_name).
RepoA == [id |-> 1, full_name |-> <<"a">>, description |-> None, stargazers_count |-> 3]
RepoB == [id |-> 2, full_name |-> <<"b">>, description |-> None, stargazers_count |-> 2]
RepoC == [id |-> 3, full_name |-> <<"c">>, description |-> Some(<<"x", "B">>), stargazers_count |-> 1]
RepoA2 == [id |-> 1, full_name |-> <<"c">>, description |-> None, stargazers_count |-> 1]
Repos == {RepoA, RepoB, RepoC, RepoA2}

\* Embedding rows (width 2) and query embeddings; <<0, 0>> has norm zero and
\* <<10>> has the wrong width.
Vectors == {<<9, 0>>, <<5, 0>>, <<1, 0>>}
QueryVectors == {<<10, 0>>, <<0, 5>>, <<0, 0>>, <<10>>}
Keywords == {<<>>, <<"b">>, <<"C">>, <<"z">>}
Limits == (0 .. MaxLimit) \cup {DefaultLimit}
Weights == {0, 5, 7, 10}
Modes == {"semantic", "keyword", "hybrid"}

SeqsUpTo(S, n) == UNION {[1 .. m -> S] : m \in 0 .. n}
Min(a, b) == IF a <= b THEN a ELSE b
Take(s, n) == SubSeq(s, 1, Min(n, Len(s)))
Reverse(s) == [i \in 1 .. Len(s) |-> s[Len(s) + 1 - i]]
Orders(n) == {p \in [1 .. n -> 1 .. n] : \A i, j \in 1 .. n : i # j => p[i] # p[j]}

---------------------------------------------------------------------------
(* StarDatabase.save_repos                                                 *)

Row(repo, text) ==
  [id |-> repo.id, full_name |-> repo.full_name, description |-> repo.description,
   stargazers_count |-> repo.stargazers_count, search_text |-> text]

InsertOrReplace(rws, row) ==
  [i \in (DOMAIN rws) \cup {row.id} |-> IF i = row.id THEN row ELSE rws[i]]

\* for repo, text in zip(repos, search_texts): INSERT OR REPLACE; zip stops at
\* the shorter list.
RECURSIVE InsertZipped(_, _, _, _)
InsertZipped(rws, repos, search_texts, n) ==
  IF n > Min(Len(repos), Len(search_texts)) THEN rws
  ELSE InsertZipped(InsertOrReplace(rws, Row(repos[n], search_texts[n])),
                    repos, search_texts, n + 1)

\* ids = np.array([r.id for r in repos])
RepoIds(repos) == [i \in 1 .. Len(repos) |-> repos[i].id]

\* The table, the two files and the cache once save_repos has returned.
save_repos(rws, repos, search_texts, embeddings) ==
  [rows |-> InsertZipped(rws, repos, search_texts, 1),
   embeddings_file |-> Some(embeddings),
   ids_file |-> Some(RepoIds(repos)),
   _embeddings |-> Some(embeddings),
   _ids |-> Some(RepoIds(repos))]

Saved(s) ==
  /\ rows' = s.rows
  /\ embeddings_file' = s.embeddings_file
  /\ ids_file' = s.ids_file
  /\ _embeddings' = s._embeddings
  /\ _ids' = s._ids

\* save_repos called with any three lists.
SaveRepos ==
  /\ result = None
  /\ \E repos \in SeqsUpTo(Repos, MaxRepos),
        search_texts \in SeqsUpTo({<<"t">>}, MaxRepos),
        embeddings \in SeqsUpTo(Vectors, MaxRepos) :
       Saved(save_repos(rows, repos, search_texts, embeddings))
  /\ UNCHANGED <<result, threadVars>>

\* StarredRepo.to_search_text: "full_name: description", or the full_name
\* alone when there is no description.
to_search_text(repo) ==
  IF repo.description = None THEN repo.full_name
  ELSE repo.full_name \o <<":", " ">> \o repo.description[1]

\* What fetch_all_stars yields: each starred repository once, and GitHub
\* gives no two live repositories the same id or the same full_name.
StarredLists ==
  {repos \in SeqsUpTo(Repos, MaxSync) :
     \A i, j \in 1 .. Len(repos) :
       i # j => repos[i].id # repos[j].id /\ repos[i].full_name # repos[j].full_name}

\* The sync command: fetch, one text and one embedding per repository, save.
SyncWith(lists, vectors) ==
  /\ result = None
  /\ \E repos \in lists :
       \E embeddings \in [1 .. Len(repos) -> vectors] :
         Saved(save_repos(rows, repos,
                          [i \in 1 .. Len(repos) |-> to_search_text(repos[i])],
                          embeddings))
  /\ UNCHANGED <<result, threadVars>>

Sync == SyncWith(StarredLists, Vectors)

---------------------------------------------------------------------------
(* StarDatabase.__init__ and load_embeddings                               *)

NewInstance ==
  /\ result = None
  /\ _embeddings' = None
  /\ _ids' = None
  /\ UNCHANGED <<rows, embeddings_file, ids_file, result, threadVars>>

\* a missing file read as an empty store instead of raising
load_embeddings_empty_when_missing(cache_e, cache_i, file_e, file_i) ==
  IF cache_e # None
  THEN [status |-> "ok", _embeddings |-> cache_e, _ids |-> cache_i]
  ELSE IF file_e = None
  THEN [status |-> "ok", _embeddings |-> Some(<<>>), _ids |-> Some(<<>>)]
  ELSE IF file_i = None
  THEN [status |-> "FileNotFoundError", _embeddings |-> file_e, _ids |-> cache_i]
  ELSE [status |-> "ok", _embeddings |-> file_e, _ids |-> file_i]

\* The cache after the call and what the call returns or raises.
load_embeddings(cache_e, cache_i, file_e, file_i) ==
  IF cache_e # None
  THEN [status |-> "ok", _embeddings |-> cache_e, _ids |-> cache_i]
  ELSE IF file_e = None
  THEN [status |-> "FileNotFoundError", _embeddings |-> cache_e, _ids |-> cache_i]
  ELSE IF file_i = None
  THEN [status |-> "FileNotFoundError", _embeddings |-> file_e, _ids |-> cache_i]
  ELSE [status |-> "ok", _embeddings |-> file_e, _ids |-> file_i]

LoadEmbeddings ==
  /\ result = None
  /\ LET l == load_embeddings(_embeddings, _ids, embeddings_file, ids_file) IN
       /\ _embeddings' = l._embeddings
       /\ _ids' = l._ids
       /\ result' = Some([op |-> "load_embeddings", status |-> l.status,
                          embeddings |-> l._embeddings, ids |-> l._ids])
  /\ UNCHANGED <<rows, embeddings_file, ids_file, threadVars>>

---------------------------------------------------------------------------
(* StarDatabase.vector_search                                              *)

Float(n) == [nan |-> FALSE, v |-> n]
NaN == [nan |-> TRUE, v |-> 0]
\* IEEE comparison as np.argsort uses it: NaN sorts after every number.
FloatLess(a, b) == ~a.nan /\ (b.nan \/ a.v < b.v)

RECURSIVE DotFrom(_, _, _)
DotFrom(a, b, i) == IF i > Len(a) THEN 0 ELSE a[i] * b[i] + DotFrom(a, b, i + 1)
Dot(a, b) == DotFrom(a, b, 1)

\* np.linalg.norm: the root of the sum of squares (the query embeddings of
\* the model have integer norms).
Norm(q) == CHOOSE n \in 0 .. Dot(q, q) : n * n = Dot(q, q)

\* query_embedding / np.linalg.norm(query_embedding): 0/0 is nan.
query_norm(q) ==
  IF Norm(q) = 0 THEN [i \in 1 .. Len(q) |-> NaN]
  ELSE [i \in 1 .. Len(q) |-> Float((q[i] * 10) \div Norm(q))]

\* embeddings @ query_norm, one similarity per row.
similarities(embeddings, qn) ==
  [i \in 1 .. Len(embeddings) |->
     IF \E j \in 1 .. Len(qn) : qn[j].nan THEN NaN
     ELSE Float(Dot(embeddings[i], [j \in 1 .. Len(qn) |-> qn[j].v]))]

\* np.argsort(similarities): the default kind is not stable, so every index
\* order that sorts the values ascending is an outcome.
argsort(sims) ==
  {p \in Orders(Len(sims)) :
     \A i, j \in 1 .. Len(sims) : i < j => ~FloatLess(sims[p[j]], sims[p[i]])}

\* np.argsort(similarities)[::-1][:limit]
top_indices(order, limit) == Take(Reverse(order), limit)

ResultDict(r, similarity) ==
  [full_name |-> r.full_name, description |-> r.description,
   stargazers_count |-> r.stargazers_count, similarity |-> similarity]

\* SELECT ... WHERE id IN (top_ids), then one dict per top id that has a row.
RECURSIVE CollectResults(_, _, _, _)
CollectResults(rws, top_ids, top_scores, n) ==
  IF n > Len(top_ids) THEN <<>>
  ELSE (IF top_ids[n] \in DOMAIN rws
        THEN <<ResultDict(rws[top_ids[n]], Some(top_scores[n]))>>
        ELSE <<>>)
       \o CollectResults(rws, top_ids, top_scores, n + 1)

Raised(error) == [status |-> error, out |-> <<>>, top_ids |-> <<>>]

\* The outcome of vector_search once load_embeddings has returned
\* (embeddings, ids) and argsort has produced order.
vector_search_with(embeddings, ids, rws, query_embedding, limit, order) ==
  LET sims == similarities(embeddings, query_norm(query_embedding))
      top == top_indices(order, limit)
  IN IF ids = None THEN Raised("TypeError")
     ELSE IF \E n \in 1 .. Len(top) : top[n] > Len(ids[1]) THEN Raised("IndexError")
     ELSE LET top_ids == [n \in 1 .. Len(top) |-> ids[1][top[n]]]
              top_scores == [n \in 1 .. Len(top) |-> sims[top[n]]]
          IN \* an empty placeholder list gives "WHERE id IN ()", which
             \* DuckDB's parser rejects
             IF top_ids = <<>> THEN Raised("ParserException")
             ELSE [status |-> "ok",
                   out |-> CollectResults(rws, top_ids, top_scores, 1),
                   top_ids |-> top_ids]

Dim(embeddings) == IF embeddings = <<>> THEN 2 ELSE Len(embeddings[1])

\* Every outcome of vector_search on a loaded cache.
vector_search(embeddings, ids, rws, query_embedding, limit) ==
  IF Len(query_embedding) # Dim(embeddings) THEN {Raised("ValueError")}
  ELSE {vector_search_with(embeddings, ids, rws, query_embedding, limit, order) :
          order \in argsort(similarities(embeddings, query_norm(query_embedding)))}

\* load_embeddings followed by the search; a load error propagates.
VectorSearchOutcomes(query_embedding, limit) ==
  LET l == load_embeddings(_embeddings, _ids, embeddings_file, ids_file) IN
    IF l.status # "ok" THEN {Raised(l.status)}
    ELSE vector_search(l._embeddings[1], l._ids, rows, query_embedding, limit)

CacheAfterLoad ==
  LET l == load_embeddings(_embeddings, _ids, embeddings_file, ids_file) IN
    /\ _embeddings' = l._embeddings
    /\ _ids' = l._ids

VectorSearch ==
  /\ result = None
  /\ \E query_embedding \in QueryVectors, limit \in Limits :
       \E o \in VectorSearchOutcomes(query_embedding, limit) :
         result' = Some([op |-> "vector_search", status |-> o.status, out |-> o.out,
                         top_ids |-> o.top_ids, query_embedding |-> query_embedding,
                         limit |-> limit])
  /\ CacheAfterLoad
  /\ UNCHANGED <<rows, embeddings_file, ids_file, threadVars>>

---------------------------------------------------------------------------
(* StarDatabase.keyword_search                                             *)

Lower(c) == IF c = "B" THEN "b" ELSE IF c = "C" THEN "c" ELSE c
LowerStr(s) == [i \in 1 .. Len(s) |-> Lower(s[i])]

\* s ILIKE '%' || keyword || '%' (no keyword of the model holds % or _)
ILike(s, keyword) ==
  \E i \in 0 .. Len(s) - Len(keyword) :
    SubSeq(LowerStr(s), i + 1, i + Len(keyword)) = LowerStr(keyword)

\* WHERE full_name ILIKE ... OR description ILIKE ...; a NULL description
\* matches nothing.
Matches(r, keyword) ==
  \/ ILike(r.full_name, keyword)
  \/ r.description # None /\ ILike(r.description[1], keyword)

\* ORDER BY stargazers_count DESC: rows with equal counts come in any order.
OrderByStars(rws, S) ==
  {p \in [1 .. Cardinality(S) -> S] :
     /\ \A i, j \in 1 .. Cardinality(S) : i # j => p[i] # p[j]
     /\ \A i, j \in 1 .. Cardinality(S) :
          i < j => rws[p[i]].stargazers_count >= rws[p[j]].stargazers_count}

KeywordDict(r) ==
  [full_name |-> r.full_name, description |-> r.description,
   stargazers_count |-> r.stargazers_count]

\* Every outcome of keyword_search.
keyword_search(rws, keyword, limit) ==
  LET S == {i \in DOMAIN rws : Matches(rws[i], keyword)} IN
    {[n \in 1 .. Min(limit, Cardinality(S)) |-> KeywordDict(rws[p[n]])] :
       p \in OrderByStars(rws, S)}

KeywordSearch ==
  /\ result = None
  /\ \E keyword \in Keywords, limit \in Limits :
       \E out \in keyword_search(rows, keyword, limit) :
         result' = Some([op |-> "keyword_search", status |-> "ok", out |-> out,
                         keyword |-> keyword, limit |-> limit])
  /\ UNCHANGED <<storeVars, threadVars>>

---------------------------------------------------------------------------
(* HybridSearcher                                                          *)

WithMatchType(r, match_type) ==
  [f \in (DOMAIN r) \cup {"match_type"} |-> IF f = "match_type" THEN match_type ELSE r[f]]

WithSimilarity(r, similarity) ==
  [f \in (DOMAIN r) \cup {"similarity"} |-> IF f = "similarity" THEN similarity ELSE r[f]]

\* _semantic_search: vector_search, every result tagged "semantic".
_semantic_search(o) ==
  [status |-> o.status,
   out |-> [n \in 1 .. Len(o.out) |-> WithMatchType(o.out[n], "semantic")]]

\* _keyword_search: keyword_search, every result tagged "keyword" with
\* similarity None.
_keyword_search(out) ==
  [n \in 1 .. Len(out) |-> WithSimilarity(WithMatchType(out[n], "keyword"), None)]

\* Scores are kept as integers: a weight is in tenths, and 1/(k + rank + 1)
\* is ScoreDen \div (k + rank + 1), exact for the ranks 0 .. 4.
ScoreDen == 61 * 62 * 63 * 64 * 65

\* the rank taken as one-based already
rrf_score_without_plus_one(weight, rank) == weight * (ScoreDen \div (RRF_K + rank))

\* weight / (k + rank + 1)
rrf_score(weight, rank) == weight * (ScoreDen \div (RRF_K + rank + 1))

\* The dict scores, as the sequence of its entries in insertion order.
HasKey(scores, key) == \E n \in 1 .. Len(scores) : scores[n].key = key

\* the score is added and the match_type left as it was
Accumulate_score_only(scores, key, score, match_type) ==
  [n \in 1 .. Len(scores) |->
     IF scores[n].key = key
     THEN [key |-> key, score |-> scores[n].score + score, data |-> scores[n].data]
     ELSE scores[n]]

\* scores[key]["score"] += rrf_score; scores[key]["data"]["match_type"] = match_type
Accumulate(scores, key, score, match_type) ==
  [n \in 1 .. Len(scores) |->
     IF scores[n].key = key
     THEN [key |-> key, score |-> scores[n].score + score,
           data |-> WithMatchType(scores[n].data, match_type)]
     ELSE scores[n]]

\* for rank, r in enumerate(semantic_results)
RECURSIVE semantic_contribution(_, _, _, _)
semantic_contribution(scores, semantic_results, semantic_weight, rank) ==
  IF rank >= Len(semantic_results) THEN scores
  ELSE LET r == semantic_results[rank + 1]
           key == r.full_name
           s == IF HasKey(scores, key) THEN scores
                ELSE Append(scores, [key |-> key, data |-> r, score |-> 0])
       IN semantic_contribution(
            Accumulate(s, key, rrf_score(semantic_weight, rank), "semantic"),
            semantic_results, semantic_weight, rank + 1)

\* for rank, r in enumerate(keyword_results)
RECURSIVE keyword_contribution(_, _, _, _)
keyword_contribution(scores, keyword_results, semantic_weight, rank) ==
  IF rank >= Len(keyword_results) THEN scores
  ELSE LET r == keyword_results[rank + 1]
           key == r.full_name
           score == rrf_score(10 - semantic_weight, rank)
       IN keyword_contribution(
            IF HasKey(scores, key)
            THEN Accumulate(scores, key, score, "hybrid")
            ELSE Append(scores, [key |-> key, score |-> score,
                                 data |-> WithMatchType(r, "keyword")]),
            keyword_results, semantic_weight, rank + 1)

\* sorted(..., key=score, reverse=True) is stable: an entry goes behind every
\* entry already placed whose score is at least its own.
RECURSIVE InsertByScore(_, _)
InsertByScore(sorted, e) ==
  IF sorted = <<>> THEN <<e>>
  ELSE IF sorted[Len(sorted)].score >= e.score THEN Append(sorted, e)
  ELSE Append(InsertByScore(SubSeq(sorted, 1, Len(sorted) - 1), e), sorted[Len(sorted)])

RECURSIVE SortedFrom(_, _, _)
SortedFrom(sorted, entries, n) ==
  IF n > Len(entries) THEN sorted
  ELSE SortedFrom(InsertByScore(sorted, entries[n]), entries, n + 1)

\* a sort that is not stable: equal scores come out last-encountered first
sorted_results_unstable(scores, limit) ==
  Take(SortedFrom(<<>>, Reverse(scores), 1), limit)

sorted_results(scores, limit) == Take(SortedFrom(<<>>, scores, 1), limit)

fused_scores(semantic_results, keyword_results, semantic_weight) ==
  keyword_contribution(
    semantic_contribution(<<>>, semantic_results, semantic_weight, 0),
    keyword_results, semantic_weight, 0)

\* the two searches asked for limit results only
fetch_limit_not_doubled(limit) == limit

\* limit * 2: what each of the two searches is asked for
fetch_limit(limit) == limit * 2

\* Every outcome of _hybrid_search; an error of the semantic search
\* propagates before the keyword search runs.
_hybrid_search(query_embedding, keyword, limit, semantic_weight) ==
  UNION {
    IF _semantic_search(o).status # "ok"
    THEN {[status |-> o.status, out |-> <<>>, semantic_results |-> <<>>,
           keyword_results |-> <<>>, scores |-> <<>>]}
    ELSE {LET semantic_results == _semantic_search(o).out
              keyword_results == _keyword_search(k)
              scores == fused_scores(semantic_results, keyword_results, semantic_weight)
              top == sorted_results(scores, limit)
          IN [status |-> "ok", out |-> [n \in 1 .. Len(top) |-> top[n].data],
              semantic_results |-> semantic_results,
              keyword_results |-> keyword_results, scores |-> scores] :
          k \in keyword_search(rows, keyword, fetch_limit(limit))} :
    o \in VectorSearchOutcomes(query_embedding, fetch_limit(limit))}

\* HybridSearcher.search: query is the keyword, and embedder.encode_single
\* maps it to query_embedding (any query vector, the model is a black box).
SearchOutcomes(mode, query, query_embedding, limit, semantic_weight) ==
  IF mode = "semantic"
  THEN {[status |-> _semantic_search(o).status, out |-> _semantic_search(o).out,
         semantic_results |-> <<>>, keyword_results |-> <<>>, scores |-> <<>>] :
        o \in VectorSearchOutcomes(query_embedding, limit)}
  ELSE IF mode = "keyword"
  THEN {[status |-> "ok", out |-> _keyword_search(k),
         semantic_results |-> <<>>, keyword_results |-> <<>>, scores |-> <<>>] :
        k \in keyword_search(rows, query, limit)}
  ELSE _hybrid_search(query_embedding, query, limit, semantic_weight)

\* The query strings with the embeddings encode_single may give them.
Queries ==
  {<<<<>>, <<10, 0>>>>, <<<<>>, <<0, 5>>>>, <<<<"b">>, <<10, 0>>>>,
   <<<<"C">>, <<0, 5>>>>, <<<<"z">>, <<10, 0>>>>, <<<<"z">>, <<0, 0>>>>,
   <<<<"b">>, <<10>>>>}

SearchWith(limits, weights) ==
  /\ result = None
  /\ \E mode \in Modes, q \in Queries, limit \in limits :
      \E semantic_weight \in (IF mode = "hybrid" THEN weights ELSE {DefaultWeight}) :
      LET query == q[1]
          query_embedding == q[2]
      IN
       /\ \E o \in SearchOutcomes(mode, query, query_embedding, limit, semantic_weight) :
            result' = Some([op |-> "search", status |-> o.status, out |-> o.out,
                            mode |-> mode, query |-> query,
                            query_embedding |-> query_embedding, limit |-> limit,
                            semantic_weight |-> semantic_weight,
                            semantic_results |-> o.semantic_results,
                            keyword_results |-> o.keyword_results,
                            scores |-> o.scores])
       /\ IF mode = "keyword" THEN UNCHANGED <<_embeddings, _ids>> ELSE CacheAfterLoad
  /\ UNCHANGED <<rows, embeddings_file, ids_file, threadVars>>

\* search called with any limit and weight; only hybrid mode reads
\* semantic_weight, the other modes are given the default.
Search == SearchWith(Limits, Weights)

\* The search command of the CLI: limit 10 and the default weight.
CliSearch == SearchWith({DefaultLimit}, {DefaultWeight})

\* The caller takes the outcome (api_search returns it to the client).
Respond ==
  /\ result # None
  /\ result' = None
  /\ UNCHANGED <<storeVars, threadVars>>

---------------------------------------------------------------------------
(* The store used by one caller at a time.                                 *)

Init ==
  /\ rows = <<>>
  /\ embeddings_file = None
  /\ ids_file = None
  /\ _embeddings = None
  /\ _ids = None
  /\ result = None
  /\ wpc = "idle"
  /\ wargs = None
  /\ rpc = "idle"
  /\ rlocal = None
  /\ generations = {}

Next ==
  \/ SaveRepos
  \/ NewInstance
  \/ LoadEmbeddings
  \/ VectorSearch
  \/ KeywordSearch
  \/ CliSearch
  \/ Respond

Spec == Init /\ [][Next]_vars

\* The program as its commands drive it: sync, then searches.
NextSync ==
  \/ Sync
  \/ Search
  \/ Respond

SpecSync == Init /\ [][NextSync]_vars

---------------------------------------------------------------------------
(* One StarDatabase shared by a thread in save_repos and a thread in       *)
(* load_embeddings.  The code takes no lock, so every statement that       *)
(* reads or writes the files or the cache is a step of its own.            *)

MaxSaves == 2

ThreadRepos == {RepoA, RepoB}
ThreadVectors == {<<9, 0>>, <<5, 0>>}

\* save_repos is entered: its arguments are bound.
W_Call ==
  /\ wpc = "idle"
  /\ Cardinality(generations) < MaxSaves
  /\ \E repos \in {l \in SeqsUpTo(ThreadRepos, MaxRepos) : l # <<>> /\ l \in StarredLists} :
       \E embeddings \in [1 .. Len(repos) -> ThreadVectors] :
         /\ wargs' = Some([repos |-> repos, embeddings |-> embeddings,
                           search_texts |->
                             [i \in 1 .. Len(repos) |-> to_search_text(repos[i])]])
         /\ generations' = generations \cup
              {[embeddings |-> Some(embeddings), ids |-> Some(RepoIds(repos))]}
  /\ wpc' = "insert"
  /\ UNCHANGED <<storeVars, result, rpc, rlocal>>

\* the INSERT OR REPLACE loop and the commit
W_Insert ==
  /\ wpc = "insert"
  /\ rows' = InsertZipped(rows, wargs[1].repos, wargs[1].search_texts, 1)
  /\ wpc' = "save_embeddings"
  /\ UNCHANGED <<embeddings_file, ids_file, _embeddings, _ids, result, wargs, rpc,
                 rlocal, generations>>

\* np.save(self.embeddings_path, embeddings)
W_SaveEmbeddings ==
  /\ wpc = "save_embeddings"
  /\ embeddings_file' = Some(wargs[1].embeddings)
  /\ wpc' = "save_ids"
  /\ UNCHANGED <<rows, ids_file, _embeddings, _ids, result, wargs, rpc, rlocal,
                 generations>>

\* np.save(self.ids_path, ids)
W_SaveIds ==
  /\ wpc = "save_ids"
  /\ ids_file' = Some(RepoIds(wargs[1].repos))
  /\ wpc' = "set_embeddings"
  /\ UNCHANGED <<rows, embeddings_file, _embeddings, _ids, result, wargs, rpc, rlocal,
                 generations>>

\* self._embeddings = embeddings
W_SetEmbeddings ==
  /\ wpc = "set_embeddings"
  /\ _embeddings' = Some(wargs[1].embeddings)
  /\ wpc' = "set_ids"
  /\ UNCHANGED <<rows, embeddings_file, ids_file, _ids, result, wargs, rpc, rlocal,
                 generations>>

\* self._ids = ids, and save_repos returns
W_SetIds ==
  /\ wpc = "set_ids"
  /\ _ids' = Some(RepoIds(wargs[1].repos))
  /\ wpc' = "idle"
  /\ wargs' = None
  /\ UNCHANGED <<rows, embeddings_file, ids_file, _embeddings, result, rpc, rlocal,
                 generations>>

\* load_embeddings is entered
R_Call ==
  /\ rpc \in {"idle", "returned", "raised"}
  /\ rpc' = "check"
  /\ rlocal' = None
  /\ UNCHANGED <<storeVars, result, wpc, wargs, generations>>

\* if self._embeddings is None
R_Check ==
  /\ rpc = "check"
  /\ rpc' = IF _embeddings = None THEN "exists" ELSE "return_embeddings"
  /\ UNCHANGED <<storeVars, result, wpc, wargs, rlocal, generations>>

\* if self.embeddings_path.exists(), else raise FileNotFoundError
R_Exists ==
  /\ rpc = "exists"
  /\ rpc' = IF embeddings_file # None THEN "load_embeddings" ELSE "raised"
  /\ UNCHANGED <<storeVars, result, wpc, wargs, rlocal, generations>>

\* self._embeddings = np.load(self.embeddings_path)
R_LoadEmbeddings ==
  /\ rpc = "load_embeddings"
  /\ _embeddings' = embeddings_file
  /\ rpc' = "load_ids"
  /\ UNCHANGED <<rows, embeddings_file, ids_file, _ids, result, wpc, wargs, rlocal,
                 generations>>

\* self._ids = np.load(self.ids_path); np.load raises when the file is absent
R_LoadIds ==
  /\ rpc = "load_ids"
  /\ IF ids_file = None
     THEN rpc' = "raised" /\ UNCHANGED _ids
     ELSE rpc' = "return_embeddings" /\ _ids' = ids_file
  /\ UNCHANGED <<rows, embeddings_file, ids_file, _embeddings, result, wpc, wargs,
                 rlocal, generations>>

\* return self._embeddings, self._ids: the first element is evaluated
R_ReturnEmbeddings ==
  /\ rpc = "return_embeddings"
  /\ rlocal' = Some([embeddings |-> _embeddings])
  /\ rpc' = "return_ids"
  /\ UNCHANGED <<storeVars, result, wpc, wargs, generations>>

\* the second element is evaluated and the tuple is returned
R_ReturnIds ==
  /\ rpc = "return_ids"
  /\ rlocal' = Some([embeddings |-> rlocal[1].embeddings, ids |-> _ids])
  /\ rpc' = "returned"
  /\ UNCHANGED <<storeVars, result, wpc, wargs, generations>>

NextThreads ==
  \/ W_Call
  \/ W_Insert
  \/ W_SaveEmbeddings
  \/ W_SaveIds
  \/ W_SetEmbeddings
  \/ W_SetIds
  \/ R_Call
  \/ R_Check
  \/ R_Exists
  \/ R_LoadEmbeddings
  \/ R_LoadIds
  \/ R_ReturnEmbeddings
  \/ R_ReturnIds

SpecThreads == Init /\ [][NextThreads]_vars

---------------------------------------------------------------------------
(* The sync command stopped between its two np.save calls (the second one  *)
(* raises, or the process is killed): the rows are committed and the       *)
(* vectors file is rewritten, the ids file and the cache are as they were. *)

save_repos_interrupted(rws, repos, search_texts, embeddings) ==
  [rows |-> InsertZipped(rws, repos, search_texts, 1),
   embeddings_file |-> Some(embeddings)]

\* What the user has starred, in the runs that are interrupted.
CrashLists == {l \in SeqsUpTo(ThreadRepos, MaxRepos) : l \in StarredLists}

CrashSync == SyncWith(CrashLists, ThreadVectors)

SyncInterrupted ==
  /\ result = None
  /\ \E repos \in CrashLists :
       \E embeddings \in [1 .. Len(repos) -> ThreadVectors] :
         LET s == save_repos_interrupted(
                    rows, repos,
                    [i \in 1 .. Len(repos) |-> to_search_text(repos[i])],
                    embeddings)
         IN /\ rows' = s.rows
            /\ embeddings_file' = s.embeddings_file
  /\ UNCHANGED <<ids_file, _embeddings, _ids, result, threadVars>>

\* Syncs, of which some are interrupted, new processes, loads and searches.
NextCrash ==
  \/ CrashSync
  \/ SyncInterrupted
  \/ NewInstance
  \/ LoadEmbeddings
  \/ VectorSearch
  \/ CliSearch
  \/ Respond

SpecCrash == Init /\ [][NextCrash]_vars

---------------------------------------------------------------------------
(* Claims.                                                                 *)

R == result[1]

\* C1: the (vectors, ids) pair a reader obtains from load_embeddings while
\* save_repos runs on the same store is the complete pair of one save: never
\* vectors of one generation with ids of another (or with no ids), and so
\* never a pair whose two lengths differ.
C1_ReaderSeesOneGeneration ==
  rpc = "returned" => rlocal[1] \in generations

\* C2: after any series of save_repos and load_embeddings calls the cached
\* ids and the cached vectors have the same length, and so have the two
\* files.
C2_ParallelArrays ==
  /\ (_embeddings # None /\ _ids # None) => Len(_ids[1]) = Len(_embeddings[1])
  /\ (embeddings_file # None /\ ids_file # None) =>
       Len(ids_file[1]) = Len(embeddings_file[1])

StoredSims == similarities(_embeddings[1], query_norm(R.query_embedding))

\* v is the n-th largest of the stored similarities
NthLargest(sims, v, n) ==
  /\ Cardinality({i \in 1 .. Len(sims) : sims[i].v > v}) < n
  /\ Cardinality({i \in 1 .. Len(sims) : sims[i].v >= v}) >= n

VectorSearchCase ==
  /\ result # None
  /\ R.op = "vector_search"
  /\ _embeddings # None
  /\ Len(_embeddings[1]) >= 1
  /\ Len(R.query_embedding) = Dim(_embeddings[1])
  /\ Norm(R.query_embedding) # 0

\* C5: on a populated store of N vectors, for a non-zero query of the stored
\* width and a limit k, vector_search returns min(k, N) results in
\* non-increasing similarity, the n-th of them with the n-th largest dot
\* product of the store.  (Stated for k >= 1; k = 0 builds "IN ()".)
C5_TopK ==
  (VectorSearchCase /\ R.limit >= 1) =>
    /\ R.status = "ok"
    /\ Len(R.out) = Min(R.limit, Len(_embeddings[1]))
    /\ \A n \in 1 .. Len(R.out) :
         NthLargest(StoredSims, R.out[n].similarity[1].v, n)

\* the ids are distinct, as many as the vectors, and each has its row
CoherentStore ==
  /\ _embeddings # None
  /\ _ids # None
  /\ Len(_ids[1]) = Len(_embeddings[1])
  /\ \A i, j \in 1 .. Len(_ids[1]) : i # j => _ids[1][i] # _ids[1][j]
  /\ \A i \in 1 .. Len(_ids[1]) : _ids[1][i] \in DOMAIN rows

\* C6: of two stored entities with equal similarity the one with the smaller
\* id comes first in the result, and is the one kept when only one fits.
\* (Stated on a store whose ids are distinct, as many as its vectors, and
\* all in the table.)
C6_TieByAscendingId ==
  (/\ VectorSearchCase
   /\ R.status = "ok"
   /\ CoherentStore)
  => \A i, j \in 1 .. Len(_ids[1]) :
       (/\ StoredSims[i] = StoredSims[j]
        /\ _ids[1][i] < _ids[1][j]
        /\ \E m \in 1 .. Len(R.top_ids) : R.top_ids[m] = _ids[1][j])
       => \E n, m \in 1 .. Len(R.top_ids) :
            n < m /\ R.top_ids[n] = _ids[1][i] /\ R.top_ids[m] = _ids[1][j]

HybridCase ==
  /\ result # None
  /\ R.op = "search"
  /\ R.mode = "hybrid"

Names(list) == [n \in 1 .. Len(list) |-> list[n].full_name]

\* The store of the end-to-end scenario: exactly A, B and C, whose vectors
\* have similarity 0.9, 0.5 and 0.1 to the query <<10, 0>>.
ScenarioStore ==
  /\ DOMAIN rows = {1, 2, 3}
  /\ rows[1].full_name = RepoA.full_name
  /\ CoherentStore
  /\ Len(_ids[1]) = 3
  /\ \A i \in 1 .. 3 :
       _embeddings[1][i] =
         (IF _ids[1][i] = 1 THEN <<9, 0>> ELSE IF _ids[1][i] = 2 THEN <<5, 0>> ELSE <<1, 0>>)

ScenarioSearch ==
  /\ HybridCase
  /\ ScenarioStore
  /\ R.query = <<"b">>
  /\ R.query_embedding = <<10, 0>>
  /\ R.limit = 2
  /\ R.semantic_weight = 7

C4_EmptyQueryEmptyResult ==
  (/\ HybridCase
   /\ R.query = <<>>
   /\ R.limit = DefaultLimit
   /\ DOMAIN rows # {}
   /\ _embeddings # None
   /\ Len(_embeddings[1]) >= 1)
  => R.status = "ok" /\ R.out = <<>>

RECURSIVE Contributions(_, _, _, _)
Contributions(list, key, weight, rank) ==
  IF rank >= Len(list) THEN 0
  ELSE (IF list[rank + 1].full_name = key
        THEN weight * (ScoreDen \div (60 + rank + 1)) ELSE 0)
       + Contributions(list, key, weight, rank + 1)

KeysOf(list) == {list[n].full_name : n \in 1 .. Len(list)}

\* C7: the score accumulated for a full_name is the sum of
\* semantic_weight / (60 + r + 1) over its occurrences at rank r in the
\* semantic list and of (1 - semantic_weight) / (60 + r + 1) over its
\* occurrences at rank r in the keyword list; each full_name of the two lists
\* has one score; the lists are fetched with limit 2 * limit.
C7_FusionScore ==
  (HybridCase /\ R.status = "ok") =>
    /\ {R.scores[n].key : n \in 1 .. Len(R.scores)} =
         KeysOf(R.semantic_results) \cup KeysOf(R.keyword_results)
    /\ \A n \in 1 .. Len(R.scores) :
         R.scores[n].score =
           Contributions(R.semantic_results, R.scores[n].key, R.semantic_weight, 0)
           + Contributions(R.keyword_results, R.scores[n].key, 10 - R.semantic_weight, 0)
    /\ Len(R.semantic_results) = Min(2 * R.limit, Len(_ids[1]))
    /\ Len(R.keyword_results) =
         Min(2 * R.limit, Cardinality({i \in DOMAIN rows : Matches(rows[i], R.query)}))

\* a full_name scored from both lists at different ranks, in a store that
\* holds more vectors than the 2 * limit the semantic list is cut to
C7_Witness ==
  /\ HybridCase
  /\ R.status = "ok"
  /\ R.semantic_weight = DefaultWeight
  /\ \E n \in 1 .. Len(R.semantic_results), m \in 1 .. Len(R.keyword_results) :
       n # m /\ R.semantic_results[n].full_name = R.keyword_results[m].full_name
  /\ Len(R.semantic_results) = 2 * R.limit
  /\ Len(_ids[1]) > Len(R.semantic_results)

FirstIndex(list, key) == CHOOSE n \in 1 .. Len(list) :
  list[n].full_name = key /\ \A m \in 1 .. n - 1 : list[m].full_name # key

\* the place of the n-th encountered full_name in the final ordering
Place(scores, n) ==
  1 + Cardinality({m \in 1 .. Len(scores) :
        \/ scores[m].score > scores[n].score
        \/ scores[m].score = scores[n].score /\ m < n})

\* C8: the hybrid result is in non-increasing fusion score, equal scores in
\* the order their full_name was first encountered (semantic list, then
\* keyword list), cut to its first limit entries.
C8_OrderAndTies ==
  (HybridCase /\ R.status = "ok") =>
    /\ \A n, m \in 1 .. Len(R.scores) :
         n < m => FirstIndex(R.semantic_results \o R.keyword_results, R.scores[n].key)
                  < FirstIndex(R.semantic_results \o R.keyword_results, R.scores[m].key)
    /\ Len(R.out) = Min(R.limit, Len(R.scores))
    /\ \A n \in 1 .. Len(R.scores) :
         Place(R.scores, n) <= R.limit => R.out[Place(R.scores, n)] = R.scores[n].data

\* two entries of equal score are both in the result, after a larger one
C8_Witness ==
  /\ HybridCase
  /\ R.status = "ok"
  /\ \E n, m, l \in 1 .. Len(R.scores) :
       /\ n < m
       /\ R.scores[n].score = R.scores[m].score
       /\ R.scores[l].score > R.scores[n].score
       /\ Place(R.scores, m) <= Len(R.out)

\* C9: for a weight strictly between 0 and 1, an entity at rank #1 of both
\* lists comes before every other entity of the hybrid result.
C9_TopOfBothFirst ==
  (/\ HybridCase
   /\ R.status = "ok"
   /\ R.semantic_weight \in 1 .. 9
   /\ R.semantic_results # <<>>
   /\ R.keyword_results # <<>>
   /\ R.semantic_results[1].full_name = R.keyword_results[1].full_name
   /\ R.out # <<>>)
  => R.out[1].full_name = R.semantic_results[1].full_name

\* C10: a returned entry whose full_name is in both lists carries match_type
\* "hybrid", and no full_name is returned twice.
C10_HybridTag ==
  (HybridCase /\ R.status = "ok") =>
    /\ \A n \in 1 .. Len(R.out) :
         R.out[n].full_name \in KeysOf(R.semantic_results) \cap KeysOf(R.keyword_results)
           => R.out[n].match_type = "hybrid"
    /\ \A n, m \in 1 .. Len(R.out) : n # m => R.out[n].full_name # R.out[m].full_name

C10_Witness ==
  /\ HybridCase
  /\ R.status = "ok"
  /\ \E n \in 1 .. Len(R.out) :
       /\ R.out[n].match_type = "hybrid"
       /\ R.out[n].full_name \in KeysOf(R.semantic_results) \cap KeysOf(R.keyword_results)
  /\ \E n \in 1 .. Len(R.out) : R.out[n].match_type = "semantic"

\* a call that runs vector_search: the method itself, or search in semantic
\* or hybrid mode
SemanticCall ==
  /\ result # None
  /\ \/ R.op = "vector_search"
     \/ R.op = "search" /\ R.mode \in {"semantic", "hybrid"}

\* C11: while no save_repos has completed (no vectors file, nothing cached)
\* vector_search, and with it semantic and hybrid search, raises
\* FileNotFoundError, returns nothing and leaves the cache empty; once the
\* store holds n >= 1 vectors with their n ids, a call with limit >= 1 and a
\* query of the stored width raises nothing.
C11_NotReadyThenReady ==
  SemanticCall =>
    /\ embeddings_file = None =>
         /\ R.status = "FileNotFoundError"
         /\ R.out = <<>>
         /\ _embeddings = None
         /\ _ids = None
    /\ (/\ _embeddings # None
        /\ _ids # None
        /\ Len(_embeddings[1]) >= 1
        /\ Len(_ids[1]) = Len(_embeddings[1])
        /\ R.limit >= 1
        /\ Len(R.query_embedding) = Dim(_embeddings[1]))
       => R.status = "ok"

\* a hybrid search on the store nothing was ever saved to
C11_Witness ==
  /\ SemanticCall
  /\ R.op = "search"
  /\ R.mode = "hybrid"
  /\ embeddings_file = None
  /\ R.status = "FileNotFoundError"
  /\ _embeddings = None

\* C12: on a populated store, vector_search with a query embedding of norm
\* zero (of the stored width, limit >= 1) raises nothing and returns the
\* empty list.
C12_ZeroNormQueryEmpty ==
  (/\ result # None
   /\ R.op = "vector_search"
   /\ CoherentStore
   /\ Len(_embeddings[1]) >= 1
   /\ Len(R.query_embedding) = Dim(_embeddings[1])
   /\ Norm(R.query_embedding) = 0
   /\ R.limit >= 1)
  => R.status = "ok" /\ R.out = <<>>

\* C13: load_embeddings never returns vectors with a different number of
\* ids, and never leaves such a pair in the cache: when the two files
\* disagree (a sync was interrupted between them) the load fails.
C13_IncoherentLoadFails ==
  (result # None /\ R.op = "load_embeddings") =>
    /\ R.status = "ok" =>
         R.ids # None /\ Len(R.ids[1]) = Len(R.embeddings[1])
    /\ (_embeddings # None /\ _ids # None) => Len(_ids[1]) = Len(_embeddings[1])

\* C14: after any series of syncs the ids of the table's rows are the ids of
\* the ids file, those of the latest sync (stated for a latest sync of at
\* least one repository).
C14_RowsAreLatestSync ==
  (ids_file # None /\ Len(ids_file[1]) >= 1) =>
    DOMAIN rows = {ids_file[1][i] : i \in 1 .. Len(ids_file[1])}

====
